---- MODULE Spec2Model ----
(***************************************************************************)
(* Model of the useCachedPhotos hook                                       *)
(* (src/src/providers/CachedPhotosProvider/useCachedPhotos.ts).            *)
(*                                                                         *)
(* The hook keeps {cachedPhotos, cachedPhotosLoadingState}, restores       *)
(* entries from the persistent cache, and runs calculateCachedPhotos       *)
(* passes that resolve every media-library photo in batches.  Every await  *)
(* of the source is a separate step of the model, every synchronous        *)
(* stretch of code between two awaits is one step.                         *)
(***************************************************************************)
EXTENDS Integers, Sequences, FiniteSets, TLC

\* ------------------------------------------------------------------ bounds
\* Number of distinct photo uris of the media library.
MaxPhotos == 3
\* Number of calculateCachedPhotos invocations that may be running at once.
MaxPasses == 2
\* Number of outside events of a run: recalculateCachedPhotos calls, upstream
\* changes after loading, and failing renders, together.
MaxEvents == 2

\* ------------------------------------------------------- program constants
\* The source has 25 and 30; the model keeps their order
\* (batch size < limiter maximum < two batches) at a checkable scale.
PROCESSING_BATCH_SIZE_LIMIT == 2
CACHE_CALCULATION_PARALLELISM_LIMIT == 3

Widths == {100, 200}
Uris == 1..MaxPhotos
\* The media library lists the model draws from: the first n photos, in order.
PhotoLists == {[i \in 1..n |-> i] : n \in 0..MaxPhotos}
\* A cache key, and equally the cache entry stored under it.
Keys == Uris \X Widths
PassIds == 1..MaxPasses

VARIABLES
    uiStatus,                 \* galleryUISettingsStateRestorationStatus
    mlStatus,                 \* mediaLibraryStateRestorationStatus
    mlLoading,                \* mediaLibraryLoadingState
    singleImageSize,          \* target width (dp)
    mediaLibraryPhotos,       \* source list
    cachedPhotos,             \* state.cachedPhotos
    cachedPhotosLoadingState, \* state.cachedPhotosLoadingState
    store,                    \* keys that have an entry in the persistent cache
    passes,                   \* running calculateCachedPhotos invocations
    limiterQueue,             \* jobs waiting for a slot of cacheCalculationLimiter
    clears,                   \* accepted recalculations awaiting clearCache()
    calcEffectPending,        \* the calculation effect is due to run
    recalcCalls,              \* calls of recalculateCachedPhotos so far
    changes,                  \* upstream changes so far
    failures,                 \* failed renders so far
    warnings,                 \* "already in progress, skipping" warnings logged
    restoredCount,            \* entries the restoration effect hydrated (-1: not run)
    clearedOtherWidth         \* the last clearCache() removed an entry of a
                              \* width other than the one being recalculated

vars == <<uiStatus, mlStatus, mlLoading, singleImageSize, mediaLibraryPhotos,
          cachedPhotos, cachedPhotosLoadingState, store, passes, limiterQueue,
          clears, calcEffectPending, recalcCalls, changes, failures,
          warnings, restoredCount, clearedOtherWidth>>

upstream == <<uiStatus, mlStatus, mlLoading, singleImageSize, mediaLibraryPhotos>>
hookState == <<cachedPhotos, cachedPhotosLoadingState>>
history == <<warnings, restoredCount, clearedOtherWidth>>

\* ----------------------------------------------------------------- helpers
Min(a, b) == IF a < b THEN a ELSE b

CeilDiv(n, b) == (n + b - 1) \div b

\* cache-service: the entry of (photoUri, mipmapWidth)
EntryOf(uri, w) == <<uri, w>>

\* cache-service getPhotoFromCache: is there an entry under the key
getPhotoFromCache(st, uri, w) == EntryOf(uri, w) \in st

\* cache-service setPhotoInCache: one entry per key, overwritten
setPhotoInCache(st, uri, w) == st \cup {EntryOf(uri, w)}

\* cache-service clearCache: every entry of every key goes
clearCache(st) == {}

\* cache-service loadAllPhotosFromCache: the entries found for the photos at
\* this width, in the order of the photos; missing ones are absent
RECURSIVE loadAllPhotosFromCache(_, _, _)
loadAllPhotosFromCache(photos, w, st) ==
    IF photos = <<>> THEN <<>>
    ELSE LET rest == loadAllPhotosFromCache(Tail(photos), w, st)
         IN  IF getPhotoFromCache(st, Head(photos), w)
             THEN <<EntryOf(Head(photos), w)>> \o rest
             ELSE rest

\* The upstream gate of the restoration effect.
UpstreamSettled ==
    /\ uiStatus # "RESTORING"
    /\ mlStatus # "RESTORING"
    /\ mlLoading = "COMPLETED"

\* Variant: the slice ends one photo early.
nextPhotosBatchShort(photos, processed) ==
    SubSeq(photos, processed + 1,
           Min(Len(photos), processed + PROCESSING_BATCH_SIZE_LIMIT - 1))

\* mediaLibraryPhotos.slice(processedPhotosCount, processedPhotosCount + LIMIT)
nextPhotosBatch(photos, processed) ==
    SubSeq(photos, processed + 1,
           Min(Len(photos), processed + PROCESSING_BATCH_SIZE_LIMIT))

\* The batch a pass is working on, and its entries once resolved.
BatchOf(p) == nextPhotosBatch(p.photos, p.processed)
newCachedPhotosBatch(p) ==
    [i \in 1..Len(BatchOf(p)) |-> EntryOf(BatchOf(p)[i], p.width)]

\* Item statuses of generateCachedPhoto:
\*   lookup    awaiting getPhotoFromCache
\*   queued    waiting for a limiter slot
\*   rendering inside the limiter (renderAsync / saveAsync)
\*   persist   awaiting setPhotoInCache
\*   done      resolved with an entry
\*   failed    rejected
ItemStatus == {"lookup", "queued", "rendering", "persist", "done", "failed"}

FreshItems(photos, processed) ==
    [i \in 1..Len(nextPhotosBatch(photos, processed)) |-> "lookup"]

\* Number of render primitive invocations running inside the limiter.
ActiveIn(ps) ==
    Cardinality({<<id, i>> \in PassIds \X (1..PROCESSING_BATCH_SIZE_LIMIT) :
                    /\ id \in DOMAIN ps
                    /\ i \in DOMAIN ps[id].items
                    /\ ps[id].items[i] = "rendering"})
activeCount == ActiveIn(passes)

FreeIds == PassIds \ DOMAIN passes

\* calculateCachedPhotos() up to its first await: the closure's photos and
\* width are fixed for the whole pass.  With no photo the loop body never
\* runs: the pass ends at once and publishes nothing.
calculateCachedPhotos(ps, photos, w, origin) ==
    IF Len(photos) = 0 THEN ps
    ELSE LET id == CHOOSE i \in PassIds \ DOMAIN ps :
                       \A o \in PassIds \ DOMAIN ps : i <= o
         IN  [i \in DOMAIN ps \cup {id} |->
                IF i = id
                THEN [photos |-> photos, width |-> w, processed |-> 0,
                      items |-> FreshItems(photos, 0), aborted |-> FALSE,
                      origin |-> origin, updates |-> 0]
                ELSE ps[i]]

\* A pass whose Promise.all rejected goes on resolving the items it started;
\* it is gone once none of them is left running.
Drained(p) == p.aborted /\ \A i \in DOMAIN p.items : p.items[i] \in {"done", "failed"}
Settle(ps) == [id \in {i \in DOMAIN ps : ~Drained(ps[i])} |-> ps[id]]

\* pLimit: a finished job hands its slot to the head of the queue.
Release(ps, q) ==
    IF q = <<>> THEN <<ps, q>>
    ELSE LET h == Head(q)
         IN  <<[ps EXCEPT ![h[1]].items[h[2]] = "rendering"], Tail(q)>>

\* An effect of the last render is still to run: React flushes it before
\* the next event or continuation is handled.
RestorationDue == UpstreamSettled /\ cachedPhotosLoadingState = "IDLE"
EffectsPending == calcEffectPending \/ RestorationDue

\* The run has outside events left.
EventsLeft == recalcCalls + changes + failures < MaxEvents

\* -------------------------------------------------------------------- Init
Init ==
    /\ uiStatus = "RESTORING"
    /\ mlStatus = "RESTORING"
    /\ mlLoading = "LOADING"
    /\ singleImageSize = 100
    /\ mediaLibraryPhotos = <<>>
    /\ cachedPhotos = <<>>
    /\ cachedPhotosLoadingState = "IDLE"
    /\ store \in SUBSET (Uris \X {100})
    /\ passes = <<>>
    /\ limiterQueue = <<>>
    /\ clears = <<>>
    /\ calcEffectPending = FALSE
    /\ recalcCalls = 0
    /\ changes = 0
    /\ failures = 0
    /\ warnings = 0
    /\ restoredCount = -1
    /\ clearedOtherWidth = FALSE

\* ---------------------------------------------------------------- upstream
\* useGalleryUISettings finishes its restoration with some width.
UISettingsRestored(w) ==
    /\ UNCHANGED history
    /\ uiStatus = "RESTORING"
    /\ uiStatus' = "SETTLED"
    /\ singleImageSize' = w
    /\ UNCHANGED <<mlStatus, mlLoading, mediaLibraryPhotos, hookState, store,
                   passes, limiterQueue, clears, calcEffectPending,
                   recalcCalls, changes, failures>>

\* useMediaLibraryPhotos finishes its restoration.
MediaLibraryRestored ==
    /\ UNCHANGED history
    /\ mlStatus = "RESTORING"
    /\ mlStatus' = "SETTLED"
    /\ UNCHANGED <<uiStatus, mlLoading, singleImageSize, mediaLibraryPhotos,
                   hookState, store, passes, limiterQueue, clears,
                   calcEffectPending, recalcCalls, changes, failures>>

\* useMediaLibraryPhotos finishes loading with some list.
MediaLibraryLoaded(photos) ==
    /\ UNCHANGED history
    /\ mlLoading = "LOADING"
    /\ mlLoading' = "COMPLETED"
    /\ mediaLibraryPhotos' = photos
    /\ UNCHANGED <<uiStatus, mlStatus, singleImageSize, hookState, store,
                   passes, limiterQueue, clears, calcEffectPending,
                   recalcCalls, changes, failures>>

\* A dependency of the calculation effect changed: it runs again, and goes
\* past its guard when the rendered state is RESTORED_FROM_CACHE.
DepsChanged ==
    /\ cachedPhotosLoadingState = "RESTORED_FROM_CACHE" => FreeIds # {}
    /\ calcEffectPending' = (cachedPhotosLoadingState = "RESTORED_FROM_CACHE")

\* The user picks another width, once the upstream has settled (what it
\* reports before that is the choice of the settling steps).
ChangeWidth(w) ==
    /\ UNCHANGED history
    /\ ~EffectsPending
    /\ UpstreamSettled
    /\ EventsLeft
    /\ w # singleImageSize
    /\ singleImageSize' = w
    /\ changes' = changes + 1
    /\ DepsChanged
    /\ UNCHANGED <<uiStatus, mlStatus, mlLoading, mediaLibraryPhotos, hookState,
                   store, passes, limiterQueue, clears, recalcCalls, failures>>

\* The media library reports another list.
ChangePhotos(photos) ==
    /\ UNCHANGED history
    /\ ~EffectsPending
    /\ UpstreamSettled
    /\ EventsLeft
    /\ photos # mediaLibraryPhotos
    /\ mediaLibraryPhotos' = photos
    /\ changes' = changes + 1
    /\ DepsChanged
    /\ UNCHANGED <<uiStatus, mlStatus, mlLoading, singleImageSize, hookState,
                   store, passes, limiterQueue, clears, recalcCalls, failures>>

\* ----------------------------------------------------------------- effects
\* Variant: whatever was found, the state is RESTORED_FROM_CACHE.
RestoredStateNeverCompleted(found, photos) ==
    [cachedPhotos |-> found, cachedPhotosLoadingState |-> "RESTORED_FROM_CACHE"]

\* The state the restoration effect ends in: nothing found, or part of the
\* photos found, is RESTORED_FROM_CACHE; every photo found is COMPLETED.
RestoredState(found, photos) ==
    IF Len(found) = 0
    THEN [cachedPhotos |-> <<>>, cachedPhotosLoadingState |-> "RESTORED_FROM_CACHE"]
    ELSE [cachedPhotos |-> found,
          cachedPhotosLoadingState |->
              IF Len(found) = Len(photos) THEN "COMPLETED" ELSE "RESTORED_FROM_CACHE"]

\* The restoration effect: setState(RESTORING_FROM_CACHE), the synchronous
\* loadAllPhotosFromCache and the closing setState run in one go, so the
\* state that is rendered next is the closing one.
RestorationEffect ==
    /\ UpstreamSettled
    /\ cachedPhotosLoadingState = "IDLE"
    /\ LET found == loadAllPhotosFromCache(mediaLibraryPhotos, singleImageSize, store)
           restored == RestoredState(found, mediaLibraryPhotos)
       IN  /\ cachedPhotos' = restored.cachedPhotos
           /\ cachedPhotosLoadingState' = restored.cachedPhotosLoadingState
    /\ calcEffectPending' = (cachedPhotosLoadingState' = "RESTORED_FROM_CACHE")
    /\ restoredCount' =
           Len(loadAllPhotosFromCache(mediaLibraryPhotos, singleImageSize, store))
    /\ UNCHANGED <<upstream, store, passes, limiterQueue, clears, recalcCalls,
                   changes, failures, warnings, clearedOtherWidth>>

\* The calculation effect, past its guard: calculateCachedPhotos() is called
\* and not awaited.
CalculationEffect ==
    /\ UNCHANGED history
    /\ calcEffectPending
    /\ calcEffectPending' = FALSE
    /\ passes' = calculateCachedPhotos(passes, mediaLibraryPhotos,
                                       singleImageSize, "effect")
    /\ UNCHANGED <<upstream, hookState, store, limiterQueue, clears,
                   recalcCalls, changes, failures>>

\* ------------------------------------------------- recalculateCachedPhotos
\* Variant: only a running restoration makes the call busy.
RecalculateBusyOnlyRestoring(st) == st = "RESTORING_FROM_CACHE"

\* The guard of recalculateCachedPhotos, on the rendered state.
RecalculateBusy(st) == st = "CALCULATING" \/ st = "RESTORING_FROM_CACHE"

\* A call in a busy state: the warning is logged and nothing else happens.
RecalculateRejected ==
    /\ warnings' = warnings + 1
    /\ UNCHANGED <<restoredCount, clearedOtherWidth>>
    /\ ~EffectsPending
    /\ EventsLeft
    /\ RecalculateBusy(cachedPhotosLoadingState)
    /\ recalcCalls' = recalcCalls + 1
    /\ UNCHANGED <<upstream, hookState, store, passes, limiterQueue, clears,
                   calcEffectPending, changes, failures>>

\* A call in any other state, up to `await clearCache()`.  The callback it
\* will run after the clear is the one of this render: its photos and width.
RecalculateAccepted ==
    /\ UNCHANGED history
    /\ ~EffectsPending
    /\ EventsLeft
    /\ ~RecalculateBusy(cachedPhotosLoadingState)
    /\ recalcCalls' = recalcCalls + 1
    /\ clears' = Append(clears, [photos |-> mediaLibraryPhotos,
                                 width |-> singleImageSize])
    /\ UNCHANGED <<upstream, hookState, store, passes, limiterQueue,
                   calcEffectPending, changes, failures>>

\* Variant: the reset keeps the photos that were there.
RecalculateResetStateKeepsPhotos ==
    [cachedPhotos |-> cachedPhotos, cachedPhotosLoadingState |-> "CALCULATING"]

\* The state recalculateCachedPhotos sets once the cache is cleared.
RecalculateResetState ==
    [cachedPhotos |-> <<>>, cachedPhotosLoadingState |-> "CALCULATING"]

\* clearCache() resolves: the store is empty, the state is reset and
\* calculateCachedPhotos() starts.
ClearCacheResolved ==
    /\ ~EffectsPending
    /\ clears # <<>>
    /\ clearedOtherWidth' = (\E e \in store : e[2] # Head(clears).width)
    /\ UNCHANGED <<warnings, restoredCount>>
    /\ Len(Head(clears).photos) > 0 => FreeIds # {}
    /\ store' = clearCache(store)
    /\ cachedPhotos' = RecalculateResetState.cachedPhotos
    /\ cachedPhotosLoadingState' = RecalculateResetState.cachedPhotosLoadingState
    /\ passes' = calculateCachedPhotos(passes, Head(clears).photos,
                                       Head(clears).width, "recalc")
    /\ clears' = Tail(clears)
    /\ UNCHANGED <<upstream, limiterQueue, calcEffectPending, recalcCalls,
                   changes, failures>>

\* ----------------------------------------------------- generateCachedPhoto
\* Variant: every job is admitted at once.
LimiterAdmitsAlways(active) == TRUE

\* pLimit admits a job at once while fewer than the maximum are running.
LimiterAdmits(active) == active < CACHE_CALCULATION_PARALLELISM_LIMIT

\* getPhotoFromCache resolves: a hit returns the entry, a miss goes to
\* calculateNewCachePhoto, that is to the limiter.
Lookup(id, i) ==
    /\ UNCHANGED history
    /\ ~EffectsPending
    /\ id \in DOMAIN passes
    /\ i \in DOMAIN passes[id].items
    /\ passes[id].items[i] = "lookup"
    /\ LET p == passes[id]
       IN  IF getPhotoFromCache(store, BatchOf(p)[i], p.width)
           THEN /\ passes' = Settle([passes EXCEPT ![id].items[i] = "done"])
                /\ limiterQueue' = limiterQueue
           ELSE IF LimiterAdmits(activeCount)
           THEN /\ passes' = [passes EXCEPT ![id].items[i] = "rendering"]
                /\ limiterQueue' = limiterQueue
           ELSE /\ passes' = [passes EXCEPT ![id].items[i] = "queued"]
                /\ limiterQueue' = Append(limiterQueue, <<id, i>>)
    /\ UNCHANGED <<upstream, hookState, store, clears, calcEffectPending,
                   recalcCalls, changes, failures>>

\* renderAsync and saveAsync succeed: the slot is released and
\* setPhotoInCache is awaited.
RenderSucceeded(id, i) ==
    /\ UNCHANGED history
    /\ ~EffectsPending
    /\ id \in DOMAIN passes
    /\ i \in DOMAIN passes[id].items
    /\ passes[id].items[i] = "rendering"
    /\ LET r == Release([passes EXCEPT ![id].items[i] = "persist"], limiterQueue)
       IN  /\ passes' = r[1]
           /\ limiterQueue' = r[2]
    /\ UNCHANGED <<upstream, hookState, store, clears, calcEffectPending,
                   recalcCalls, changes, failures>>

\* The render primitive throws: the slot is released, generateCachedPhoto
\* rejects, and with it the Promise.all of the batch and the pass.
RenderFailed(id, i) ==
    /\ UNCHANGED history
    /\ ~EffectsPending
    /\ EventsLeft
    /\ id \in DOMAIN passes
    /\ i \in DOMAIN passes[id].items
    /\ passes[id].items[i] = "rendering"
    /\ LET r == Release([passes EXCEPT ![id].items[i] = "failed",
                                       ![id].aborted = TRUE], limiterQueue)
       IN  /\ passes' = Settle(r[1])
           /\ limiterQueue' = r[2]
    /\ failures' = failures + 1
    /\ UNCHANGED <<upstream, hookState, store, clears, calcEffectPending,
                   recalcCalls, changes>>

\* setPhotoInCache resolves: the entry is in the store.
Persist(id, i) ==
    /\ UNCHANGED history
    /\ ~EffectsPending
    /\ id \in DOMAIN passes
    /\ i \in DOMAIN passes[id].items
    /\ passes[id].items[i] = "persist"
    /\ store' = setPhotoInCache(store, BatchOf(passes[id])[i], passes[id].width)
    /\ passes' = Settle([passes EXCEPT ![id].items[i] = "done"])
    /\ UNCHANGED <<upstream, hookState, limiterQueue, clears, calcEffectPending,
                   recalcCalls, changes, failures>>

\* --------------------------------------------------- calculateCachedPhotos
\* Variant: the state is derived from the length of the batch alone.
PublishedStateOfBatchAlone(prev, batch, photos) ==
    [cachedPhotos |-> prev \o batch,
     cachedPhotosLoadingState |->
         IF Len(batch) = Len(photos) THEN "COMPLETED" ELSE "CALCULATING"]

\* The state a batch publishes: the batch is appended to whatever
\* cachedPhotos holds, and the state is derived from the new length.
PublishedState(prev, batch, photos) ==
    LET all == prev \o batch
    IN  [cachedPhotos |-> all,
         cachedPhotosLoadingState |->
             IF Len(all) = Len(photos) THEN "COMPLETED" ELSE "CALCULATING"]

\* Variant: the batch counts as resolved with its first resolved item.
BatchResolvedByAny(p) == \E i \in DOMAIN p.items : p.items[i] = "done"

\* `await Promise.all(...)` of the batch is over: every item has resolved.
BatchResolved(p) == \A i \in DOMAIN p.items : p.items[i] = "done"

\* Promise.all of the batch resolves: the count advances, the batch is
\* published and, while photos are left, the next batch is started.
PublishBatch(id) ==
    /\ UNCHANGED history
    /\ ~EffectsPending
    /\ id \in DOMAIN passes
    /\ ~passes[id].aborted
    /\ BatchResolved(passes[id])
    /\ LET p == passes[id]
           pub == PublishedState(cachedPhotos, newCachedPhotosBatch(p), p.photos)
           processedPhotosCount == p.processed + Len(BatchOf(p))
       IN  /\ cachedPhotos' = pub.cachedPhotos
           /\ cachedPhotosLoadingState' = pub.cachedPhotosLoadingState
           /\ passes' =
                IF processedPhotosCount < Len(p.photos)
                THEN [passes EXCEPT ![id].processed = processedPhotosCount,
                                    ![id].items = FreshItems(p.photos, processedPhotosCount),
                                    ![id].updates = p.updates + 1]
                ELSE [j \in DOMAIN passes \ {id} |-> passes[j]]
    /\ UNCHANGED <<upstream, store, limiterQueue, clears, calcEffectPending,
                   recalcCalls, changes, failures>>

Items == PassIds \X (1..PROCESSING_BATCH_SIZE_LIMIT)

Next ==
    \/ \E w \in Widths : UISettingsRestored(w)
    \/ MediaLibraryRestored
    \/ \E l \in PhotoLists : MediaLibraryLoaded(l)
    \/ \E w \in Widths : ChangeWidth(w)
    \/ \E l \in PhotoLists : ChangePhotos(l)
    \/ RestorationEffect
    \/ CalculationEffect
    \/ RecalculateRejected
    \/ RecalculateAccepted
    \/ ClearCacheResolved
    \/ \E it \in Items : Lookup(it[1], it[2])
    \/ \E it \in Items : RenderSucceeded(it[1], it[2])
    \/ \E it \in Items : RenderFailed(it[1], it[2])
    \/ \E it \in Items : Persist(it[1], it[2])
    \/ \E id \in PassIds : PublishBatch(id)

Spec == Init /\ [][Next]_vars

\* The steps the runtime takes by itself: effects, promise resolutions and
\* the continuations after them.  Every render that is not made to fail
\* finishes, and every pending continuation runs.
Progress ==
    \/ RestorationEffect
    \/ CalculationEffect
    \/ ClearCacheResolved
    \/ \E it \in Items : Lookup(it[1], it[2])
    \/ \E it \in Items : RenderSucceeded(it[1], it[2])
    \/ \E it \in Items : Persist(it[1], it[2])
    \/ \E id \in PassIds : PublishBatch(id)

FairSpec == Spec /\ WF_vars(Progress)

\* One restore/calculate cycle left to itself: the upstream settles, the
\* effects and the pass run, renders may fail; nobody asks for a
\* recalculation and the upstream does not change afterwards.
CycleNext ==
    \/ \E w \in Widths : UISettingsRestored(w)
    \/ MediaLibraryRestored
    \/ \E l \in PhotoLists : MediaLibraryLoaded(l)
    \/ RestorationEffect
    \/ CalculationEffect
    \/ \E it \in Items : Lookup(it[1], it[2])
    \/ \E it \in Items : RenderSucceeded(it[1], it[2])
    \/ \E it \in Items : RenderFailed(it[1], it[2])
    \/ \E it \in Items : Persist(it[1], it[2])
    \/ \E id \in PassIds : PublishBatch(id)

CycleSpec == Init /\ [][CycleNext]_vars /\ WF_vars(Progress)

\* ------------------------------------------------------- common predicates
\* Nothing is left to run: no effect is due, no clearCache() is pending and
\* no calculateCachedPhotos pass is running.
Quiescent ==
    /\ UpstreamSettled
    /\ ~EffectsPending
    /\ clears = <<>>
    /\ passes = <<>>

\* No recalculation was requested, nothing changed upstream, no render failed.
NoEvents == recalcCalls = 0 /\ changes = 0 /\ failures = 0

\* The entries of the current source list at the current width, in order.
ExpectedPhotos ==
    [i \in 1..Len(mediaLibraryPhotos) |-> EntryOf(mediaLibraryPhotos[i], singleImageSize)]

\* A batch of pass id is in flight: its resolutions have started and its
\* results are not yet published.
InFlight(id) == id \in DOMAIN passes /\ ~passes[id].aborted
BatchInFlight == \E id \in PassIds : InFlight(id)
\* The store holds an entry for every (source, width) key of the current list.
StoreCoversExpected ==
    \A i \in 1..Len(mediaLibraryPhotos) :
        getPhotoFromCache(store, mediaLibraryPhotos[i], singleImageSize)

\* ------------------------------------------------------------------ claims

\* C1 (as claimed): partial restoration.  When the restoration effect hydrated
\* k entries with 0 < k < N and nothing interferes (no recalculation, no
\* upstream change, no failed render), the calculation pass that follows ends
\* with exactly N entries in cachedPhotos and the state COMPLETED.
C1_PartialRestorationCompletes ==
    (/\ Quiescent
     /\ NoEvents
     /\ restoredCount > 0
     /\ restoredCount < Len(mediaLibraryPhotos))
    => (/\ cachedPhotosLoadingState = "COMPLETED"
        /\ Len(cachedPhotos) = Len(mediaLibraryPhotos))

\* The start of the empty-store run: settled upstream, IDLE, N >= 1 photos,
\* an empty store, and nothing has interfered.
C2_EmptyStart ==
    /\ RestorationDue
    /\ Len(mediaLibraryPhotos) >= 1
    /\ store = {}
    /\ NoEvents
\* Its middle: restored with no cached photo.
C2_RestoredEmpty ==
    /\ cachedPhotosLoadingState = "RESTORED_FROM_CACHE"
    /\ cachedPhotos = <<>>
    /\ restoredCount = 0
    /\ Len(mediaLibraryPhotos) >= 1
    /\ NoEvents
\* Its end: completed with the N entries, each of the N keys stored.
C2_CompletedAll ==
    /\ cachedPhotosLoadingState = "COMPLETED"
    /\ Len(cachedPhotos) = Len(mediaLibraryPhotos)
    /\ cachedPhotos = ExpectedPhotos
    /\ StoreCoversExpected

\* C2: empty-store run.  From IDLE with the upstream settled, N >= 1 photos
\* and an empty store, the state reaches RESTORED_FROM_CACHE with no cached
\* photo, and from there COMPLETED with the N entries of the source list
\* while the store holds every one of the N keys, unless a recalculation, an
\* upstream change or a failed render intervenes.
C2_EmptyStoreRun ==
    /\ C2_EmptyStart ~> (C2_RestoredEmpty \/ ~NoEvents)
    /\ C2_RestoredEmpty ~> (C2_CompletedAll \/ ~NoEvents)

\* C2 witness: a run over more than one batch that started from the empty
\* store (the store holds the N keys and nothing else, none was there at
\* restoration and nothing was cleared) has completed.
C2_Witness ==
    /\ C2_CompletedAll
    /\ NoEvents
    /\ restoredCount = 0
    /\ Len(mediaLibraryPhotos) > PROCESSING_BATCH_SIZE_LIMIT
    /\ store = {ExpectedPhotos[i] : i \in 1..Len(mediaLibraryPhotos)}

\* C3 (as claimed): empty collection.  With no source photo, once nothing is
\* left to run (after the restore/calculate cycle, or after an accepted
\* recalculation) the state is COMPLETED and cachedPhotos is empty.
C3_EmptyCollectionCompletes ==
    (/\ Quiescent
     /\ Len(mediaLibraryPhotos) = 0
     /\ changes = 0)
    => (/\ cachedPhotosLoadingState = "COMPLETED"
        /\ cachedPhotos = <<>>)
\* C4 (as claimed): full restoration.  When the restoration effect finds an
\* entry for every source photo, the state it publishes is
\* RESTORED_FROM_CACHE, as for any other hit count.
C4_FullRestorationIsRestored ==
    [][(restoredCount = -1 /\ restoredCount' = Len(mediaLibraryPhotos))
       => cachedPhotosLoadingState' = "RESTORED_FROM_CACHE"]_vars

\* C4 (amended): when the restoration effect finds an entry for every one of
\* the N >= 1 source photos, the state goes to COMPLETED with these N
\* entries; the effects start no calculation pass and no render is invoked
\* as long as no recalculation is requested and the upstream does not change.
C4_FullRestorationCompletes ==
    (/\ restoredCount >= 1
     /\ restoredCount = Len(mediaLibraryPhotos)
     /\ recalcCalls = 0
     /\ changes = 0)
    => (/\ cachedPhotosLoadingState = "COMPLETED"
        /\ cachedPhotos = ExpectedPhotos
        /\ ~calcEffectPending
        /\ passes = <<>>
        /\ activeCount = 0)

\* C4 witness: the restoration effect has found all of two or more photos.
C4_Witness ==
    /\ restoredCount >= 2
    /\ restoredCount = Len(mediaLibraryPhotos)
    /\ NoEvents
    /\ cachedPhotosLoadingState = "COMPLETED"
\* The set of the entries of a list of cached photos.
EntrySet(photos) == {photos[i] : i \in 1..Len(photos)}

\* C5 (as claimed): epoch change.  After the width or the source list has
\* changed (with no recalculation requested and no failed render), once
\* nothing is left to run cachedPhotos holds the N entries of the new source
\* list at the new width.
C5_EpochChangeRecalculated ==
    (/\ Quiescent
     /\ changes > 0
     /\ recalcCalls = 0
     /\ failures = 0
     /\ Len(mediaLibraryPhotos) >= 1)
    => (/\ Len(cachedPhotos) = Len(mediaLibraryPhotos)
        /\ EntrySet(cachedPhotos) = EntrySet(ExpectedPhotos))

\* A step is a call of recalculateCachedPhotos.
RecalculateCalled == recalcCalls' = recalcCalls + 1

\* C6 (as claimed): a call of recalculateCachedPhotos made while a batch of
\* any pass is in flight is rejected: no clearCache() is started for it, and
\* the store, cachedPhotos, the state and the passes stay as they are.
C6_RejectedWhileBatchInFlight ==
    [][(BatchInFlight /\ RecalculateCalled)
       => (clears' = clears /\ UNCHANGED <<store, hookState, passes>>)]_vars

\* C7: a call of recalculateCachedPhotos made while the state is CALCULATING
\* or RESTORING_FROM_CACHE logs the warning and changes nothing: the state,
\* cachedPhotos, the store and the passes are unchanged, and no clearCache()
\* (so no later pass) is pending for it.
C7_BusyCallIsNoOp ==
    [][(/\ RecalculateCalled
        /\ cachedPhotosLoadingState \in {"CALCULATING", "RESTORING_FROM_CACHE"})
       => (/\ warnings' = warnings + 1
           /\ UNCHANGED <<hookState, store, passes, limiterQueue, clears,
                          calcEffectPending>>)]_vars

\* C7 witness: a call has been rejected while a pass is calculating.
C7_Witness ==
    /\ warnings > 0
    /\ cachedPhotosLoadingState = "CALCULATING"
    /\ BatchInFlight
    /\ clears = <<>>

\* A pass that has resolved nothing yet: its first batch awaits the lookups.
FreshPass(p) ==
    /\ p.processed = 0
    /\ p.updates = 0
    /\ \A i \in DOMAIN p.items : p.items[i] = "lookup"

\* C8: when the clearCache() of an accepted recalculateCachedPhotos resolves,
\* the store holds no entry of any width, cachedPhotos is empty and the
\* state is CALCULATING, while the pass it starts has resolved nothing yet
\* and the other passes are where they were.
C8_AcceptedRecalculationClears ==
    [][Len(clears') < Len(clears)
       => (/\ store' = {}
           /\ cachedPhotos' = <<>>
           /\ cachedPhotosLoadingState' = "CALCULATING"
           /\ \A id \in DOMAIN passes' :
                 IF id \in DOMAIN passes
                 THEN passes'[id] = passes[id]
                 ELSE FreshPass(passes'[id]))]_vars

\* C8 witness: a recalculation has just cleared a store that held an entry
\* of another width, and its pass is about to start resolving.
C8_Witness ==
    /\ clearedOtherWidth
    /\ store = {}
    /\ cachedPhotos = <<>>
    /\ cachedPhotosLoadingState = "CALCULATING"
    /\ \E id \in DOMAIN passes :
          passes[id].origin = "recalc" /\ FreshPass(passes[id])

\* Pass id publishes a batch in this step.
Publishes(id) ==
    /\ id \in DOMAIN passes
    /\ ~passes[id].aborted
    /\ failures' = failures
    /\ \/ id \notin DOMAIN passes'
       \/ passes'[id].updates > passes[id].updates

\* C9: a pass over N photos publishes one update per batch: its i-th update
\* adds min(B, N - (i-1)*B) entries, and the pass ends with the update
\* number ceil(N/B) and with no other.
C9_UpdatesPerPass ==
    [][\A id \in PassIds :
         Publishes(id) =>
           LET n == Len(passes[id].photos)
               i == passes[id].updates + 1
           IN  /\ Len(cachedPhotos') - Len(cachedPhotos) =
                    Min(PROCESSING_BATCH_SIZE_LIMIT,
                        n - (i - 1) * PROCESSING_BATCH_SIZE_LIMIT)
               /\ (id \notin DOMAIN passes')
                    <=> (i = CeilDiv(n, PROCESSING_BATCH_SIZE_LIMIT))]_vars

\* C9 witness: a pass over N photos, N no multiple of the batch size, has
\* published a full first batch and is resolving its shorter last one.
C9_Witness ==
    \E id \in DOMAIN passes :
        /\ passes[id].updates >= 1
        /\ Len(cachedPhotos) >= PROCESSING_BATCH_SIZE_LIMIT
        /\ Len(BatchOf(passes[id])) < PROCESSING_BATCH_SIZE_LIMIT

\* C10: never more render primitive invocations are running than the
\* limiter maximum.
C10_LimiterBound == activeCount <= CACHE_CALCULATION_PARALLELISM_LIMIT

\* C10 witness: the limiter is full and a job is waiting for a slot.
C10_Witness ==
    /\ activeCount = CACHE_CALCULATION_PARALLELISM_LIMIT
    /\ limiterQueue # <<>>

\* The key item i of pass id resolves, and the items of the state ps that
\* are inside the render primitive.
KeyOf(ps, id, i) == EntryOf(BatchOf(ps[id])[i], ps[id].width)
Rendering(ps) ==
    {it \in Items : /\ it[1] \in DOMAIN ps
                    /\ it[2] \in DOMAIN ps[it[1]].items
                    /\ ps[it[1]].items[it[2]] = "rendering"}

\* C11 (as claimed): whenever a render primitive invocation starts for a
\* key, the store holds no entry for that key and no other invocation for
\* the same key is running or waiting to persist its result, whatever the
\* interleaving of the generateCachedPhoto calls of one batch or of
\* overlapping passes.
C11_RenderOnlyOnMiss ==
    [][\A it \in Rendering(passes') \ Rendering(passes) :
          LET k == KeyOf(passes', it[1], it[2])
          IN  /\ k \notin store'
              /\ \A o \in Items \ {it} :
                    (/\ o[1] \in DOMAIN passes'
                     /\ o[2] \in DOMAIN passes'[o[1]].items
                     /\ passes'[o[1]].items[o[2]] \in {"rendering", "persist"})
                    => KeyOf(passes', o[1], o[2]) # k]_vars

\* The entries of a list of photos at a width, in order.
EntriesOf(photos, w) == [i \in 1..Len(photos) |-> EntryOf(photos[i], w)]

\* Pass id publishes its last batch in this step: it has completed.
Completes(id) == Publishes(id) /\ id \notin DOMAIN passes'

\* The restoration effect runs in this step.
Restores == restoredCount' # restoredCount

\* C12: round trip.  When a pass over N photos at width w completes without
\* a failed render, the restoration scan of the same photos at the same
\* width over the store returns the N entries; and a run of the restoration
\* scan starts no render and writes nothing to the store.
C12_RoundTrip ==
    [][/\ \A id \in PassIds :
            Completes(id) =>
              loadAllPhotosFromCache(passes[id].photos, passes[id].width, store')
                = EntriesOf(passes[id].photos, passes[id].width)
       /\ Restores =>
            /\ restoredCount' =
                 Len(loadAllPhotosFromCache(mediaLibraryPhotos, singleImageSize, store))
            /\ UNCHANGED <<store, passes, limiterQueue>>]_vars

\* C13 (as claimed): upstream gating.  As long as the upstream has not
\* settled, every step (of the restoration effect, of the calculation
\* effect or of a recalculation request) leaves the state IDLE, starts no
\* render and does not change the store.
C13_UpstreamGating ==
    [][~UpstreamSettled' =>
          /\ cachedPhotosLoadingState' = "IDLE"
          /\ Rendering(passes') = {}
          /\ store' = store]_vars

\* C14 (as claimed): whenever the state is COMPLETED, cachedPhotos holds
\* exactly one entry for each photo of the current source list at the
\* current width: its length is N, no photo is missing, none occurs twice.
C14_CompletedHoldsEachOnce ==
    cachedPhotosLoadingState = "COMPLETED"
    => (/\ Len(cachedPhotos) = Len(mediaLibraryPhotos)
        /\ EntrySet(cachedPhotos) = EntrySet(ExpectedPhotos))

\* C15 (as claimed): failure isolation.  A failed render is confined to its
\* item: the other items of its batch and the following batches are still
\* resolved and published.  So once nothing is left to run, every source
\* photo but the failed ones has its entry in cachedPhotos.
C15_FailureIsolated ==
    (Quiescent /\ failures > 0)
    => Cardinality(EntrySet(cachedPhotos) \cap EntrySet(ExpectedPhotos))
         >= Len(mediaLibraryPhotos) - failures

\* Pass id steps on to another batch, or completes, in this step.
LeavesBatch(id) ==
    \/ Completes(id)
    \/ /\ id \in DOMAIN passes
       /\ id \in DOMAIN passes'
       /\ passes'[id].processed # passes[id].processed

\* C16: batch barrier.  A pass leaves a batch only when every item of the
\* batch has resolved, and in the same step the entries of the batch are
\* published; the items of the next batch are then all before their store
\* lookup.  The batches are the contiguous slices of size B of the source
\* list: a batch starts at a multiple of B and has B photos, or the
\* remaining ones if fewer are left.
C16_BatchBarrier ==
    [][\A id \in PassIds :
          /\ LeavesBatch(id) =>
               /\ \A i \in DOMAIN passes[id].items : passes[id].items[i] = "done"
               /\ cachedPhotos' =
                    cachedPhotos \o
                    [i \in 1..Len(passes[id].items) |->
                       EntryOf(passes[id].photos[passes[id].processed + i],
                               passes[id].width)]
               /\ id \in DOMAIN passes' =>
                    /\ passes'[id].processed =
                         passes[id].processed + PROCESSING_BATCH_SIZE_LIMIT
                    /\ \A i \in DOMAIN passes'[id].items :
                          passes'[id].items[i] = "lookup"
          /\ id \in DOMAIN passes' =>
               LET p == passes'[id]
               IN  /\ p.processed % PROCESSING_BATCH_SIZE_LIMIT = 0
                   /\ p.processed < Len(p.photos)
                   /\ Len(p.items) =
                        Min(PROCESSING_BATCH_SIZE_LIMIT, Len(p.photos) - p.processed)]_vars

\* C16 witness: a pass is rendering an item of its second batch after its
\* first batch, of full size, was published.
C16_Witness ==
    \E id \in DOMAIN passes :
        /\ passes[id].processed = PROCESSING_BATCH_SIZE_LIMIT
        /\ \E i \in DOMAIN passes[id].items : passes[id].items[i] = "rendering"
        /\ Len(cachedPhotos) >= PROCESSING_BATCH_SIZE_LIMIT

\* A list is the beginning of another.
IsPrefix(s, t) == Len(s) <= Len(t) /\ \A i \in 1..Len(s) : s[i] = t[i]

\* C17 (as claimed): ordering.  Every state a pass publishes lists the
\* entries in the order of the source list of the pass: the i-th entry of
\* cachedPhotos is the entry of the i-th source photo, whatever cachedPhotos
\* held when the pass started.
C17_SourceOrder ==
    [][\A id \in PassIds :
          Publishes(id) =>
            IsPrefix(cachedPhotos',
                     EntriesOf(passes[id].photos, passes[id].width))]_vars

\* C18 (as claimed): serialized passes.  At most one calculateCachedPhotos
\* pass is running at any time, whatever the interleaving of the triggers
\* (recalculation requests and runs of the calculation effect).
C18_OnePassAtATime == Cardinality(DOMAIN passes) <= 1

\* C19 (as claimed): COMPLETED is stable.  A step from a COMPLETED state
\* that is no call of recalculateCachedPhotos and follows no such call
\* leaves the state COMPLETED and cachedPhotos as it is: no later batch
\* publication moves the state back to CALCULATING or changes the length
\* of cachedPhotos.
C19_CompletedStable ==
    [][(/\ cachedPhotosLoadingState = "COMPLETED"
        /\ recalcCalls = 0
        /\ ~RecalculateCalled)
       => UNCHANGED hookState]_vars

\* C20 (as claimed): busy means working.  Whenever the state is
\* CALCULATING, a calculateCachedPhotos pass is running that has not been
\* aborted by a failed render (a batch is in flight), or one is about to be
\* started; this also after a failed render and after a recalculation over
\* an empty source list.
C20_BusyMeansWorking ==
    cachedPhotosLoadingState = "CALCULATING"
    => (BatchInFlight \/ calcEffectPending \/ clears # <<>>)
====
